---- MODULE Spec2Model ----
(***************************************************************************)
(* dearpygui-map: the map widget (MapWidget, TileManager), its projected   *)
(* coordinates (Coordinate) and the tile fetch layer (TileHandler,         *)
(* DownloadThread).                                                        *)
(*                                                                         *)
(* Numbers.  Coordinate.x / .y are floats in the source.  Every value the  *)
(* widget computes from integer pixel counts is a multiple of              *)
(* 1 / (2^max_zoom_level * FineRes), so a projected coordinate is kept     *)
(* here as the integer number of such units (Unit units = 1.0) and all     *)
(* arithmetic is exact.  Pixel quantities that may be fractional           *)
(* (TileManager.origin_offset, fractional tile numbers) are kept           *)
(* multiplied by Unit.  Rounding of the float operations is not modelled.  *)
(***************************************************************************)
EXTENDS Integers, Sequences, FiniteSets, TLC

VARIABLES
    widget,        \* MapWidget: origin, zoom_level, last_drag, _left_mouse_pressed
    tile_manager,  \* TileManager: origin, zoom_level, last_drag, origin_offset, tiles, ...
    handlers,      \* the started TileHandler threads that still have tiles to resolve
    drawn,         \* the dpg.draw_image calls made so far, in order (one TileSpec each)
    lastOp,        \* history: the operation that led to this state
    rev,           \* history: progress of a drag, commit, opposite drag, commit sequence
    threads,       \* SpecTiles: the TileHandler threads, statement by statement
    cache,         \* SpecTiles: the tile specs whose local_storage_path exists
    geo,           \* SpecGeo, SpecCreate, SpecUrl: the last call of a function and its outcome
    requested      \* SpecRequest: history, the tile specs handed to a TileHandler so far

vars == <<widget, tile_manager, handlers, drawn, lastOp, rev, threads, cache, geo,
          requested>>

fetchVars == <<threads, cache>>

progVars == <<widget, tile_manager, handlers, drawn>>

----------------------------------------------------------------------------
(* Bounds of the model *)

\* TileServer.max_zoom_level of the modelled tile servers
MaxZoomLevel == 1

\* TileHandler threads alive at the same time
MaxHandlers == 1

\* SpecTiles: TileHandler threads started in one run
MaxFetches == 2

\* SpecBatch: largest thread_limit of a tile server
MaxWorkers == 2

\* SpecView: whole tiles a drag moves the layer by, in either direction
MaxShift == 1

\* SpecView: tiles displayed
MaxShown == 1

\* how far (in half worlds) the viewport origin may leave the unit square
MaxPan == 0

(* Program constants *)

\* default `resolution` of Coordinate.with_screen_offset
DefaultResolution == 256

\* margin used by TileManager._required_tiles_for_view
Margin == 2

\* finest pixel raster of the model: every modelled tile size divides it
FineRes == 2 * DefaultResolution

RECURSIVE Pow2(_)
Pow2(n) == IF n <= 0 THEN 1 ELSE 2 * Pow2(n - 1)

\* number of coordinate units in 1.0
Unit == Pow2(MaxZoomLevel) * FineRes

None == "None"

\* geo before any call of a Coordinate function
NoCall == [op |-> "none"]

----------------------------------------------------------------------------
(* Inputs *)

\* TileServer.tile_size of the modelled tile servers
TileSizes == {<<256, 256>>, <<512, 512>>}

TileServers ==
    {[tile_size |-> ts, thread_limit |-> 1, max_zoom_level |-> MaxZoomLevel] :
        ts \in TileSizes}

\* widget width and height
Width == 2 * DefaultResolution
Height == DefaultResolution

\* projected centre points: from_latlon(0, 0) = (0.5, 0.5)
Centers == {[x |-> Unit \div 2, y |-> Unit \div 2]}

\* zoom level the widget is created with
InitZooms == {MaxZoomLevel}

\* (delta_x, delta_y) reported by the mouse drag handler
Drags == {<<0, 0>>, <<256, 128>>, <<-256, -128>>}

\* canvas positions of the mouse at a wheel event / zoom_on_point call
CanvasPoints == {<<0, 0>>, <<256, 128>>}

\* tile addresses the tile server (or the local cache) can deliver; a fetch of
\* any other address fails
Served ==
    {[tile_x |-> 1, tile_y |-> 1, zoom_level |-> 1]}

----------------------------------------------------------------------------
(* geo.py: Coordinate *)

Coordinate(x, y) == [x |-> x, y |-> y]

\* with_screen_offset, but the result is kept inside the projected plane [0, 1]
with_screen_offset_clamped(c, delta_x, delta_y, zoom, resolution) ==
    LET dim_tiles == Pow2(zoom)
        off(delta, res) == delta * (Pow2(MaxZoomLevel) \div dim_tiles) * (FineRes \div res)
        keep(v) == IF v < 0 THEN 0 ELSE IF v > Unit THEN Unit ELSE v
    IN  [x |-> keep(c.x + off(delta_x, resolution[1])),
         y |-> keep(c.y + off(delta_y, resolution[2]))]

with_screen_offset(c, delta_x, delta_y, zoom, resolution) ==
    LET dim_tiles == Pow2(zoom)
        \* delta / (dim_tiles * resolution), in units
        off(delta, res) == delta * (Pow2(MaxZoomLevel) \div dim_tiles) * (FineRes \div res)
    IN  Coordinate(c.x + off(delta_x, resolution[1]),
                   c.y + off(delta_y, resolution[2]))

\* tile_xy(zoom): floor(x * 2^zoom), floor(y * 2^zoom)
tile_xy(c, zoom) ==
    LET zoom_scale == Pow2(zoom)
    IN  <<(c.x * zoom_scale) \div Unit, (c.y * zoom_scale) \div Unit>>

Clamp(v, lo, hi) == IF v < lo THEN lo ELSE IF v > hi THEN hi ELSE v

\* tile_xy(zoom, floor_=False): the fractional tile numbers, times Unit
tile_xy_float(c, zoom) ==
    LET zoom_scale == Pow2(zoom)
    IN  <<Clamp(c.x * zoom_scale, 0, (zoom_scale - 1) * Unit),
          Clamp(c.y * zoom_scale, 0, (zoom_scale - 1) * Unit)>>

\* An angle in degrees is kept as the pair <<a, b>> that stands for
\* a * 10^-5 + b * 10^-10 degrees, with 0 <= b < 10^5.
Angle(a, b) == <<a, b>>

AngleLess(p, q) == p[1] < q[1] \/ (p[1] = q[1] /\ p[2] < q[2])

AngleNeg(p) == IF p[2] = 0 THEN <<-p[1], 0>> ELSE <<-p[1] - 1, 100000 - p[2]>>

\* Coordinate.MAX_LATITUDE = 85.0511287798
MAX_LATITUDE == Angle(8505112, 87798)

\* the 180 of _lon_to_x
MaxLongitude == Angle(18000000, 0)

\* the latitude whose projected y is 0.25: 66.5132604431 degrees
QuarterLatitude == Angle(6651326, 4431)

ValueError == "ValueError"

\* _lon_to_x: (lon + 180) / 360, in units, rounded down to a whole unit
lon_to_x(lon) ==
    IF AngleLess(MaxLongitude, lon) \/ AngleLess(lon, AngleNeg(MaxLongitude))
    THEN [raised |-> ValueError, value |-> 0]
    ELSE [raised |-> None,
          value |-> ((lon[1] + MaxLongitude[1]) * (Unit \div 256)) \div 140625]

\* (1 - asinh(tan(radians(lat))) / pi) / 2 in units, for the latitudes of
\* Latitudes that lie inside the bounds
MercatorY(lat) ==
    CASE lat = MAX_LATITUDE -> 0
      [] lat = QuarterLatitude -> Unit \div 4
      [] lat = Angle(0, 0) -> Unit \div 2
      [] lat = AngleNeg(QuarterLatitude) -> 3 * (Unit \div 4)
      [] lat = AngleNeg(MAX_LATITUDE) -> Unit

\* _lat_to_y, but a latitude out of bounds is moved to the bound
lat_to_y_clamped(lat) ==
    IF AngleLess(MAX_LATITUDE, lat)
    THEN [raised |-> None, value |-> MercatorY(MAX_LATITUDE)]
    ELSE IF AngleLess(lat, AngleNeg(MAX_LATITUDE))
         THEN [raised |-> None, value |-> MercatorY(AngleNeg(MAX_LATITUDE))]
         ELSE [raised |-> None, value |-> MercatorY(lat)]

\* _lat_to_y
lat_to_y(lat) ==
    IF AngleLess(MAX_LATITUDE, lat) \/ AngleLess(lat, AngleNeg(MAX_LATITUDE))
    THEN [raised |-> ValueError, value |-> 0]
    ELSE [raised |-> None, value |-> MercatorY(lat)]

\* Coordinate.from_latlon: the exception raised, or the Coordinate made
from_latlon(latitude, longitude) ==
    LET coord_x == lon_to_x(longitude)
        coord_y == lat_to_y(latitude)
    IN  IF coord_x.raised # None
        THEN [raised |-> coord_x.raised, coordinate |-> None]
        ELSE IF coord_y.raised # None
             THEN [raised |-> coord_y.raised, coordinate |-> None]
             ELSE [raised |-> None, coordinate |-> Coordinate(coord_x.value, coord_y.value)]

\* degrees(atan(sinh(pi * (1 - 2 * y)))) for the y of the unit grid that
\* MercatorY takes
InverseMercatorY(y) ==
    CASE y = 0 -> MAX_LATITUDE
      [] y = Unit \div 4 -> QuarterLatitude
      [] y = Unit \div 2 -> Angle(0, 0)
      [] y = 3 * (Unit \div 4) -> AngleNeg(QuarterLatitude)
      [] y = Unit -> AngleNeg(MAX_LATITUDE)

\* latlon, but the longitude is x * 360.0
latlon_unshifted(c) ==
    LET lon_deg == Angle((c.x * 140625) \div (Unit \div 256), 0)
        lat_deg == InverseMercatorY(c.y)
    IN  <<lat_deg, lon_deg>>

\* Coordinate.latlon: lon_deg = x * 360.0 - 180.0, rounded down to 10^-5 degree
latlon(c) ==
    LET lon_deg == Angle((c.x * 140625) \div (Unit \div 256) - MaxLongitude[1], 0)
        lat_deg == InverseMercatorY(c.y)
    IN  <<lat_deg, lon_deg>>

----------------------------------------------------------------------------
(* tile_source.py *)

\* TileSpec: tile_size, base_url and subdomains are those of the one tile
\* server of the widget, so (tile_x, tile_y, zoom_level) decides equality
to_tile_spec(tile_x, tile_y, zoom_level) ==
    [tile_x |-> tile_x, tile_y |-> tile_y, zoom_level |-> zoom_level]

\* TileSpec.canvas_coordinates(x_offset, y_offset); tile_size is that of the
\* tile server, offsets and result are pixels times Unit
canvas_coordinates(tile_spec, tile_size, x_offset, y_offset) ==
    <<tile_spec.tile_x * tile_size[1] * Unit + x_offset,
      tile_spec.tile_y * tile_size[2] * Unit + y_offset>>

\* A URL template (TileServer.base_url) is the sequence of its literal pieces
\* and its replacement fields; a URL is the sequence of the pieces after
\* substitution.
BaseUrls ==
    {<<"http://", "{subdomain}", ".tile.openstreetmap.org/", "{z}", "/", "{x}", "/", "{y}", ".png">>,
     <<"http://", "{subdomain}", ".tile.test_provider.org/", "{z}", "/", "{x}", "/", "{y}", ".png">>}

\* TileServer.subdomains
SubdomainLists == {<<"a", "b", "c">>, <<"a">>, <<"c", "a">>, <<>>}

\* download_url, but the subdomain is picked by the tile address
download_url_rotating(tile_spec, base_url, subdomains) ==
    IF subdomains = <<>>
    THEN [raised |-> "IndexError", url |-> <<>>]
    ELSE [raised |-> None,
          url |-> [i \in DOMAIN base_url |->
                     CASE base_url[i] = "{subdomain}" ->
                              subdomains[((tile_spec.tile_x + tile_spec.tile_y)
                                            % Len(subdomains)) + 1]
                       [] base_url[i] = "{x}" -> ToString(tile_spec.tile_x)
                       [] base_url[i] = "{y}" -> ToString(tile_spec.tile_y)
                       [] base_url[i] = "{z}" -> ToString(tile_spec.zoom_level)
                       [] OTHER -> base_url[i]]]

\* TileSpec.download_url: base_url.format(subdomain=self.subdomains[0],
\* x=self.tile_x, y=self.tile_y, z=self.zoom_level); subdomains[0] of an empty
\* list raises IndexError
download_url(tile_spec, base_url, subdomains) ==
    IF subdomains = <<>>
    THEN [raised |-> "IndexError", url |-> <<>>]
    ELSE [raised |-> None,
          url |-> [i \in DOMAIN base_url |->
                     CASE base_url[i] = "{subdomain}" -> subdomains[1]
                       [] base_url[i] = "{x}" -> ToString(tile_spec.tile_x)
                       [] base_url[i] = "{y}" -> ToString(tile_spec.tile_y)
                       [] base_url[i] = "{z}" -> ToString(tile_spec.zoom_level)
                       [] OTHER -> base_url[i]]]

----------------------------------------------------------------------------
(* widget.py: TileManager *)

Range(s) == {s[i] : i \in DOMAIN s}

set_origin(tm, origin, zoom_level) ==
    LET origin_xy == tile_xy_float(origin, zoom_level)
        ts == tm.tile_server.tile_size
    IN  [tm EXCEPT
            !.origin = origin,
            !.zoom_level = zoom_level,
            !.origin_offset =
                <<-origin_xy[1] * ts[1] + tm.last_drag[1] * Unit,
                  -origin_xy[2] * ts[2] + tm.last_drag[2] * Unit>>]

\* -int((origin_offset[i] + last_drag[i]) // tile_size[i])
get_origin_xy(tm) ==
    LET ts == tm.tile_server.tile_size
        one(i) == -((tm.origin_offset[i] + tm.last_drag[i] * Unit) \div (ts[i] * Unit))
    IN  <<one(1), one(2)>>

get_visible_tiles(tm, margin) ==
    LET res == <<DefaultResolution, DefaultResolution>>
        min_point == with_screen_offset(tm.origin, -tm.last_drag[1], -tm.last_drag[2],
                                        tm.zoom_level, res)
        max_point == with_screen_offset(min_point, tm.viewport_size[1],
                                        tm.viewport_size[2], tm.zoom_level, res)
        min_xy == tile_xy(min_point, tm.zoom_level)
        max_xy == tile_xy(max_point, tm.zoom_level)
    IN  {<<x, y, tm.zoom_level>> :
            x \in (min_xy[1] - margin) .. (max_xy[1] + margin),
            y \in (min_xy[2] - margin) .. (max_xy[2] + margin)}

required_tiles_for_view(tm) ==
    {to_tile_spec(t[1], t[2], t[3]) : t \in get_visible_tiles(tm, Margin)}
        \ Range(tm.tiles)

\* TileHandler(missing_tiles, self.draw_tile, thread_count): the tile specs of
\* the batch that have neither been passed to the callback nor failed yet
TileHandler(tile_specs) ==
    [unresolved |-> tile_specs \cap Served]

\* draw_layer: the new TileManager and the handlers with the one it starts
draw_layer(tm, hs) ==
    LET origin_xy == get_origin_xy(tm)
        missing_tiles == required_tiles_for_view(tm)
    IN  IF origin_xy = tm.last_origin_xy
        THEN [tm |-> tm, hs |-> hs]
        ELSE [tm |-> [tm EXCEPT !.last_origin_xy = origin_xy],
              hs |-> IF missing_tiles # {}
                     THEN Append(hs, TileHandler(missing_tiles))
                     ELSE hs]

\* drag_layer, but the delta is added to the recorded drag
drag_layer_accumulates(tm, delta_x, delta_y) ==
    [tm EXCEPT !.last_drag = <<tm.last_drag[1] + delta_x, tm.last_drag[2] + delta_y>>]

drag_layer(tm, delta_x, delta_y) ==
    [tm EXCEPT !.last_drag = <<delta_x, delta_y>>]

\* finish_drag, but the origin moves at the tile size of the tile server
finish_drag_tile_size(tm) ==
    IF tm.last_drag = <<0, 0>>
    THEN tm
    ELSE [tm EXCEPT
            !.origin_offset = <<tm.origin_offset[1] + tm.last_drag[1] * Unit,
                                tm.origin_offset[2] + tm.last_drag[2] * Unit>>,
            !.origin = with_screen_offset(tm.origin, -tm.last_drag[1], -tm.last_drag[2],
                                          tm.zoom_level, tm.tile_server.tile_size),
            !.last_drag = <<0, 0>>]

finish_drag(tm) ==
    IF tm.last_drag = <<0, 0>>
    THEN tm
    ELSE [tm EXCEPT
            !.origin_offset = <<tm.origin_offset[1] + tm.last_drag[1] * Unit,
                                tm.origin_offset[2] + tm.last_drag[2] * Unit>>,
            !.origin = with_screen_offset(tm.origin, -tm.last_drag[1], -tm.last_drag[2],
                                          tm.zoom_level,
                                          <<DefaultResolution, DefaultResolution>>),
            !.last_drag = <<0, 0>>]

\* TileManager.__init__
NewTileManager(origin, width, height, zoom_level, tile_server) ==
    set_origin([viewport_size |-> <<width, height>>,
                origin |-> origin,
                zoom_level |-> zoom_level,
                tile_server |-> tile_server,
                tiles |-> <<>>,
                last_drag |-> <<0, 0>>,
                origin_offset |-> <<0, 0>>,
                last_origin_xy |-> None],
               origin, zoom_level)

----------------------------------------------------------------------------
(* widget.py: MapWidget.  A widget operation returns the new widget and the *)
(* new tile manager.                                                        *)

\* MapWidget.__init__, but the origin is shifted at the default resolution
NewMapWidget_default_resolution(width, height, center, zoom_level, tile_server) ==
    LET origin == with_screen_offset(center, -(width \div 2), -(height \div 2),
                                     zoom_level, <<DefaultResolution, DefaultResolution>>)
    IN  [w |-> [width |-> width, height |-> height,
                origin |-> origin, zoom_level |-> zoom_level,
                left_mouse_pressed |-> FALSE, last_drag |-> <<0, 0>>],
         tm |-> NewTileManager(origin, width, height, zoom_level, tile_server)]

\* MapWidget.__init__; center is the projected from_latlon(*center)
NewMapWidget(width, height, center, zoom_level, tile_server) ==
    LET origin == with_screen_offset(center, -(width \div 2), -(height \div 2),
                                     zoom_level, tile_server.tile_size)
    IN  [w |-> [width |-> width, height |-> height,
                origin |-> origin, zoom_level |-> zoom_level,
                left_mouse_pressed |-> FALSE, last_drag |-> <<0, 0>>],
         tm |-> NewTileManager(origin, width, height, zoom_level, tile_server)]

\* zoom_on_point, but without the test against max_zoom_level
zoom_on_point_no_max(w, tm, canvas_position, zoom_level) ==
    IF zoom_level < 0
    THEN [w |-> w, tm |-> tm]
    ELSE LET focus_position ==
                 with_screen_offset(w.origin, canvas_position[1], canvas_position[2],
                                    w.zoom_level, tm.tile_server.tile_size)
             origin ==
                 with_screen_offset(focus_position, -canvas_position[1],
                                    -canvas_position[2], zoom_level,
                                    tm.tile_server.tile_size)
         IN  [w |-> [w EXCEPT !.origin = origin, !.zoom_level = zoom_level],
              tm |-> set_origin(tm, origin, zoom_level)]

\* zoom_on_point, but the origin stays where it was
zoom_on_point_keeps_origin(w, tm, canvas_position, zoom_level) ==
    IF zoom_level < 0 \/ zoom_level > tm.tile_server.max_zoom_level
    THEN [w |-> w, tm |-> tm]
    ELSE [w |-> [w EXCEPT !.zoom_level = zoom_level],
          tm |-> set_origin(tm, w.origin, zoom_level)]

zoom_on_point(w, tm, canvas_position, zoom_level) ==
    IF zoom_level < 0 \/ zoom_level > tm.tile_server.max_zoom_level
    THEN [w |-> w, tm |-> tm]
    ELSE LET focus_position ==
                 with_screen_offset(w.origin, canvas_position[1], canvas_position[2],
                                    w.zoom_level, tm.tile_server.tile_size)
             origin ==
                 with_screen_offset(focus_position, -canvas_position[1],
                                    -canvas_position[2], zoom_level,
                                    tm.tile_server.tile_size)
         IN  [w |-> [w EXCEPT !.origin = origin, !.zoom_level = zoom_level],
              tm |-> set_origin(tm, origin, zoom_level)]

get_coordinate(w, tm, canvas_x, canvas_y) ==
    with_screen_offset(w.origin, canvas_x, canvas_y, w.zoom_level,
                       tm.tile_server.tile_size)

drag_canvas(w, tm, delta_x, delta_y) ==
    [w |-> [w EXCEPT !.last_drag = <<delta_x, delta_y>>],
     tm |-> drag_layer(tm, delta_x, delta_y)]

widget_finish_drag(w, tm) ==
    IF w.last_drag = <<0, 0>>
    THEN [w |-> w, tm |-> tm]
    ELSE [w |-> [w EXCEPT
                    !.origin = with_screen_offset(w.origin, -w.last_drag[1],
                                   -w.last_drag[2], w.zoom_level,
                                   <<DefaultResolution, DefaultResolution>>),
                    !.last_drag = <<0, 0>>],
          tm |-> finish_drag(tm)]

----------------------------------------------------------------------------
(* TileManager.draw_tile, run as one step.  image_ok: dpg.load_image returned *)
(* an image.  tile_spec.canvas_coordinates() yields the rectangle to draw   *)
(* and changes no state.                                                     *)

\* pmin and pmax of draw_tile, the rectangle given to dpg.draw_image, in
\* pixels times Unit.  draw_tile calls canvas_coordinates() and passes no
\* offset: the rectangle is that of the offset (0, 0).
draw_rectangle(tm, tile_spec) ==
    LET ts == tm.tile_server.tile_size
        pmin == canvas_coordinates(tile_spec, ts, 0, 0)
    IN  [pmin |-> pmin, pmax |-> <<pmin[1] + ts[1] * Unit, pmin[2] + ts[2] * Unit>>]

\* draw_tile, but the tile spec is registered before the image is loaded
draw_tile_registers_first(tm, dr, tile_spec, image_ok) ==
    IF tile_spec \in Range(tm.tiles)
    THEN [tm |-> tm, dr |-> dr]
    ELSE IF ~image_ok
         THEN [tm |-> [tm EXCEPT !.tiles = Append(tm.tiles, tile_spec)], dr |-> dr]
         ELSE [tm |-> [tm EXCEPT !.tiles = Append(tm.tiles, tile_spec)],
               dr |-> Append(dr, tile_spec)]

draw_tile(tm, dr, tile_spec, image_ok) ==
    IF tile_spec \in Range(tm.tiles)
    THEN [tm |-> tm, dr |-> dr]
    ELSE IF ~image_ok
         THEN [tm |-> tm, dr |-> dr]
         ELSE [tm |-> [tm EXCEPT !.tiles = Append(tm.tiles, tile_spec)],
               dr |-> Append(dr, tile_spec)]

----------------------------------------------------------------------------
(* The widget as a state machine *)

\* a TileHandler thread ends when nothing of its batch is left to resolve
Live(hs) == SelectSeq(hs, LAMBDA h : h.unresolved # {})

\* the origin the viewport shows: the origin with the pending drag applied
ShownOrigin(w) ==
    with_screen_offset(w.origin, -w.last_drag[1], -w.last_drag[2], w.zoom_level,
                       <<DefaultResolution, DefaultResolution>>)

InBox(c) ==
    LET slack == MaxPan * (Unit \div 2)
    IN  /\ c.x >= -slack /\ c.x <= Unit + slack
        /\ c.y >= -slack /\ c.y <= Unit + slack

\* the state after add_map_widget: MapWidget.__init__, then insert_widget
InitWidget ==
    \E tile_server \in TileServers, center \in Centers, zoom_level \in InitZooms :
        LET mw == NewMapWidget(Width, Height, center, zoom_level, tile_server)
            dl == draw_layer(mw.tm, <<>>)
        IN  /\ widget = mw.w
            /\ tile_manager = dl.tm
            /\ handlers = Live(dl.hs)
            /\ drawn = <<>>

\* _mouse_click_cb; on_widget: dpg.is_item_left_clicked(self.widget)
mouse_click_cb(on_widget) ==
    /\ widget' = IF on_widget THEN [widget EXCEPT !.left_mouse_pressed = TRUE] ELSE widget
    /\ UNCHANGED <<tile_manager, handlers, drawn>>

\* _mouse_release_cb
mouse_release_cb ==
    LET r == widget_finish_drag([widget EXCEPT !.left_mouse_pressed = FALSE], tile_manager)
    IN  /\ widget' = r.w
        /\ tile_manager' = r.tm
        /\ UNCHANGED <<handlers, drawn>>

\* _mouse_drag_cb without the test of _left_mouse_pressed
mouse_drag_cb_any_time(delta) ==
    LET r == drag_canvas(widget, tile_manager, delta[1], delta[2])
        dl == draw_layer(r.tm, handlers)
    IN  /\ InBox(ShownOrigin(r.w))
        /\ Len(Live(dl.hs)) <= MaxHandlers
        /\ widget' = r.w
        /\ tile_manager' = dl.tm
        /\ handlers' = Live(dl.hs)
        /\ drawn' = drawn

\* _mouse_drag_cb
mouse_drag_cb(delta) ==
    LET r == drag_canvas(widget, tile_manager, delta[1], delta[2])
        dl == draw_layer(r.tm, handlers)
    IN  IF widget.left_mouse_pressed
        THEN /\ InBox(ShownOrigin(r.w))
             /\ Len(Live(dl.hs)) <= MaxHandlers
             /\ widget' = r.w
             /\ tile_manager' = dl.tm
             /\ handlers' = Live(dl.hs)
             /\ drawn' = drawn
        ELSE UNCHANGED <<widget, tile_manager, handlers, drawn>>

ZoomIgnored(zoom_level) ==
    zoom_level < 0 \/ zoom_level > tile_manager.tile_server.max_zoom_level

\* _mouse_wheel_cb; canvas_pos: dpg.get_drawing_mouse_pos()
mouse_wheel_cb(delta_zoom, canvas_pos) ==
    LET r == zoom_on_point(widget, tile_manager, canvas_pos, widget.zoom_level + delta_zoom)
        dl == draw_layer(r.tm, handlers)
    IN  /\ InBox(ShownOrigin(r.w))
        /\ Len(Live(dl.hs)) <= MaxHandlers
        /\ widget' = r.w
        /\ tile_manager' = dl.tm
        /\ handlers' = Live(dl.hs)
        /\ drawn' = drawn

RemoveSpec(hs, h, tile_spec) ==
    Live([hs EXCEPT ![h].unresolved = @ \ {tile_spec}])

\* a TileHandler passes a resolved tile spec to its callback, draw_tile
tile_arrives(h, tile_spec, image_ok) ==
    LET r == draw_tile(tile_manager, drawn, tile_spec, image_ok)
    IN  /\ tile_spec \in handlers[h].unresolved
        /\ tile_manager' = r.tm
        /\ drawn' = r.dr
        /\ handlers' = RemoveSpec(handlers, h, tile_spec)
        /\ UNCHANGED widget

\* the download of a tile spec fails: no callback
tile_fails(h, tile_spec) ==
    /\ tile_spec \in handlers[h].unresolved
    /\ handlers' = RemoveSpec(handlers, h, tile_spec)
    /\ UNCHANGED <<widget, tile_manager, drawn>>

----------------------------------------------------------------------------
(* Spec: the widget under mouse events and tile arrivals; lastOp names the  *)
(* operation of each step.                                                  *)

NoRev == [phase |-> 0, d |-> <<0, 0>>, origin |-> Coordinate(0, 0), offset |-> <<0, 0>>]

Init ==
    /\ InitWidget
    /\ lastOp = "init"
    /\ rev = NoRev
    /\ threads = <<>>
    /\ cache = {}
    /\ geo = NoCall
    /\ requested = {}

MouseClick(on_widget) ==
    /\ lastOp' = "click"
    /\ mouse_click_cb(on_widget)
    /\ UNCHANGED <<rev, fetchVars, geo, requested>>

MouseRelease ==
    /\ lastOp' = IF widget.last_drag = <<0, 0>> THEN "release" ELSE "commit"
    /\ mouse_release_cb
    /\ UNCHANGED <<rev, fetchVars, geo, requested>>

MouseDrag(delta) ==
    /\ lastOp' = IF ~widget.left_mouse_pressed THEN "drag_ignored"
                 ELSE IF widget.last_drag = <<0, 0>> THEN "drag" ELSE "redrag"
    /\ mouse_drag_cb(delta)
    /\ UNCHANGED <<rev, fetchVars, geo, requested>>

MouseWheel(delta_zoom, canvas_pos) ==
    /\ lastOp' = IF ZoomIgnored(widget.zoom_level + delta_zoom) THEN "zoom_ignored"
                 ELSE IF canvas_pos = <<0, 0>> THEN "zoom_at_corner" ELSE "zoom"
    /\ mouse_wheel_cb(delta_zoom, canvas_pos)
    /\ UNCHANGED <<rev, fetchVars, geo, requested>>

TileArrives(h, tile_spec, image_ok) ==
    /\ lastOp' = "tile"
    /\ tile_arrives(h, tile_spec, image_ok)
    /\ UNCHANGED <<rev, fetchVars, geo, requested>>

TileFails(h, tile_spec) ==
    /\ lastOp' = "tile_failed"
    /\ tile_fails(h, tile_spec)
    /\ UNCHANGED <<rev, fetchVars, geo, requested>>

Next ==
    \/ \E on_widget \in BOOLEAN : MouseClick(on_widget)
    \/ MouseRelease
    \/ \E delta \in Drags : MouseDrag(delta)
    \/ \E delta_zoom \in {-1, 1}, canvas_pos \in CanvasPoints :
          MouseWheel(delta_zoom, canvas_pos)
    \/ \E h \in DOMAIN handlers, tile_spec \in Served, image_ok \in BOOLEAN :
          TileArrives(h, tile_spec, image_ok)
    \/ \E h \in DOMAIN handlers, tile_spec \in Served : TileFails(h, tile_spec)

Spec == Init /\ [][Next]_vars

----------------------------------------------------------------------------
(* SpecRevert: the same widget; rev follows a drag, commit, opposite drag,  *)
(* commit sequence.  phase 1: a drag d is pending that began at origin /    *)
(* offset; 2: it was committed; 3: the opposite drag is pending; 4: that    *)
(* was committed too.  A change of zoom level or any other drag ends the    *)
(* sequence.                                                                *)

Neg(d) == <<-d[1], -d[2]>>

RevAfterDrag(delta) ==
    IF ~widget.left_mouse_pressed THEN rev
    ELSE IF widget.last_drag = <<0, 0>>
    THEN IF delta = <<0, 0>> THEN rev
         ELSE IF rev.phase = 2 /\ delta = Neg(rev.d) THEN [rev EXCEPT !.phase = 3]
         ELSE [phase |-> 1, d |-> delta, origin |-> widget.origin,
               offset |-> tile_manager.origin_offset]
    ELSE IF rev.phase = 1 /\ delta # <<0, 0>> THEN [rev EXCEPT !.d = delta]
         ELSE IF rev.phase = 3 /\ delta = Neg(rev.d) THEN rev
         ELSE NoRev

RevAfterRelease ==
    IF widget.last_drag = <<0, 0>> THEN rev
    ELSE IF rev.phase \in {1, 3} THEN [rev EXCEPT !.phase = @ + 1]
    ELSE NoRev

RevClick(on_widget) ==
    /\ mouse_click_cb(on_widget)
    /\ UNCHANGED <<lastOp, rev, fetchVars, geo, requested>>

RevRelease ==
    /\ mouse_release_cb
    /\ rev' = RevAfterRelease
    /\ UNCHANGED <<lastOp, fetchVars, geo, requested>>

RevDrag(delta) ==
    /\ mouse_drag_cb(delta)
    /\ rev' = RevAfterDrag(delta)
    /\ UNCHANGED <<lastOp, fetchVars, geo, requested>>

RevWheel(delta_zoom, canvas_pos) ==
    /\ mouse_wheel_cb(delta_zoom, canvas_pos)
    /\ rev' = IF ZoomIgnored(widget.zoom_level + delta_zoom) THEN rev ELSE NoRev
    /\ UNCHANGED <<lastOp, fetchVars, geo, requested>>

RevTileArrives(h, tile_spec, image_ok) ==
    /\ tile_arrives(h, tile_spec, image_ok)
    /\ UNCHANGED <<lastOp, rev, fetchVars, geo, requested>>

RevTileFails(h, tile_spec) ==
    /\ tile_fails(h, tile_spec)
    /\ UNCHANGED <<lastOp, rev, fetchVars, geo, requested>>

NextRevert ==
    \/ \E on_widget \in BOOLEAN : RevClick(on_widget)
    \/ RevRelease
    \/ \E delta \in Drags : RevDrag(delta)
    \/ \E delta_zoom \in {-1, 1}, canvas_pos \in CanvasPoints :
          RevWheel(delta_zoom, canvas_pos)
    \/ \E h \in DOMAIN handlers, tile_spec \in Served, image_ok \in BOOLEAN :
          RevTileArrives(h, tile_spec, image_ok)
    \/ \E h \in DOMAIN handlers, tile_spec \in Served : RevTileFails(h, tile_spec)

SpecRevert == Init /\ [][NextRevert]_vars

----------------------------------------------------------------------------
(* SpecRequest: the widget under mouse events and tile arrivals, with the   *)
(* tile specs that draw_layer has handed to TileHandlers recorded in        *)
(* requested.                                                               *)

\* the missing_tiles that draw_layer gives to the TileHandler it starts; none
\* when it returns early because the origin tile has not changed
draw_layer_missing(tm) ==
    IF get_origin_xy(tm) = tm.last_origin_xy
    THEN {}
    ELSE required_tiles_for_view(tm)

\* add_map_widget: insert_widget calls draw_layer with nothing displayed
InitRequest ==
    /\ InitWidget
    /\ requested = required_tiles_for_view(tile_manager)
    /\ lastOp = "init"
    /\ rev = NoRev
    /\ threads = <<>>
    /\ cache = {}
    /\ geo = NoCall

ReqClick(on_widget) ==
    /\ lastOp' = "click"
    /\ mouse_click_cb(on_widget)
    /\ UNCHANGED <<rev, fetchVars, geo, requested>>

ReqRelease ==
    /\ lastOp' = IF widget.last_drag = <<0, 0>> THEN "release" ELSE "commit"
    /\ mouse_release_cb
    /\ UNCHANGED <<rev, fetchVars, geo, requested>>

ReqDrag(delta) ==
    /\ lastOp' = IF ~widget.left_mouse_pressed THEN "drag_ignored"
                 ELSE IF widget.last_drag = <<0, 0>> THEN "drag" ELSE "redrag"
    /\ mouse_drag_cb(delta)
    /\ requested' =
           IF widget.left_mouse_pressed
           THEN requested \cup
                  draw_layer_missing(drag_canvas(widget, tile_manager, delta[1], delta[2]).tm)
           ELSE requested
    /\ UNCHANGED <<rev, fetchVars, geo>>

ReqWheel(delta_zoom, canvas_pos) ==
    /\ lastOp' = IF ZoomIgnored(widget.zoom_level + delta_zoom) THEN "zoom_ignored"
                 ELSE IF canvas_pos = <<0, 0>> THEN "zoom_at_corner" ELSE "zoom"
    /\ mouse_wheel_cb(delta_zoom, canvas_pos)
    /\ requested' =
           requested \cup
             draw_layer_missing(zoom_on_point(widget, tile_manager, canvas_pos,
                                              widget.zoom_level + delta_zoom).tm)
    /\ UNCHANGED <<rev, fetchVars, geo>>

ReqTileArrives(h, tile_spec, image_ok) ==
    /\ lastOp' = "tile"
    /\ tile_arrives(h, tile_spec, image_ok)
    /\ UNCHANGED <<rev, fetchVars, geo, requested>>

ReqTileFails(h, tile_spec) ==
    /\ lastOp' = "tile_failed"
    /\ tile_fails(h, tile_spec)
    /\ UNCHANGED <<rev, fetchVars, geo, requested>>

NextRequest ==
    \/ \E on_widget \in BOOLEAN : ReqClick(on_widget)
    \/ ReqRelease
    \/ \E delta \in Drags : ReqDrag(delta)
    \/ \E delta_zoom \in {-1, 1}, canvas_pos \in CanvasPoints :
          ReqWheel(delta_zoom, canvas_pos)
    \/ \E h \in DOMAIN handlers, tile_spec \in Served, image_ok \in BOOLEAN :
          ReqTileArrives(h, tile_spec, image_ok)
    \/ \E h \in DOMAIN handlers, tile_spec \in Served : ReqTileFails(h, tile_spec)

SpecRequest == InitRequest /\ [][NextRequest]_vars

----------------------------------------------------------------------------
(* SpecTiles: io.py.  The TileHandler threads that draw_layer starts, their *)
(* DownloadThread workers and the callback TileManager.draw_tile, one step  *)
(* per statement that reads or writes shared state.  The mouse events       *)
(* that make draw_layer start a handler are those of Spec; here the         *)
(* viewport stays where it is.                                              *)

\* the tile specs followed in SpecTiles and SpecBatch, in the order draw_layer
\* lists them: two tiles of the zoom level the widget is created with
FetchSpecs == <<to_tile_spec(0, 1, MaxZoomLevel), to_tile_spec(1, 1, MaxZoomLevel)>>

\* a local variable of a thread that holds no TileSpec yet
NoTileSpec == [tile_spec |-> None]

\* TileHandler.__init__ with add_to_queue.  callbacks and failed are history:
\* the tile specs passed to the callback so far, in order, and the tile specs
\* whose download has failed
NewTileHandler(tile_specs, files, thread_count) ==
    [task_queue |-> SelectSeq(tile_specs, LAMBDA t : t \notin files),
     result_queue |-> SelectSeq(tile_specs, LAMBDA t : t \in files),
     thread_count |-> thread_count,
     workers |-> <<>>,
     pc |-> "start",
     result |-> NoTileSpec,
     callbacks |-> <<>>,
     failed |-> {}]

\* DownloadThread.__init__, start()
NewDownloadThread == [pc |-> "loop", tile_spec |-> NoTileSpec]

is_alive(worker) == worker.pc # "dead"

InitTiles ==
    /\ InitWidget
    /\ lastOp = "init"
    /\ rev = NoRev
    /\ threads = <<>>
    /\ cache \in SUBSET Range(FetchSpecs)
    /\ geo = NoCall
    /\ requested = {}

\* draw_layer, once the origin tile has changed: the missing tiles are the
\* required tiles that are not displayed, and if there are any a TileHandler
\* is made for them and started.  Of the missing tiles, those of FetchSpecs
\* are followed.
StartHandler ==
    LET missing_tiles ==
            SelectSeq(FetchSpecs, LAMBDA t : t \in required_tiles_for_view(tile_manager))
    IN  /\ Len(threads) < MaxFetches
        /\ Len(missing_tiles) > 0
        /\ threads' = Append(threads,
                NewTileHandler(missing_tiles, cache, tile_manager.tile_server.thread_limit))
        /\ UNCHANGED <<widget, tile_manager, handlers, drawn, lastOp, rev, cache, geo, requested>>

\* TileHandler.run: for _ in range(self.thread_count): start one DownloadThread
HandlerStartWorker(h) ==
    /\ threads[h].pc = "start"
    /\ threads' = [threads EXCEPT
            ![h].workers = Append(@, NewDownloadThread),
            ![h].pc = IF Len(threads[h].workers) + 1 = threads[h].thread_count
                      THEN "test_empty" ELSE "start"]
    /\ UNCHANGED <<widget, tile_manager, handlers, drawn, lastOp, rev, cache, geo, requested>>

\* while not (self.result_queue.empty() and ...): the first operand
HandlerTestEmpty(h) ==
    /\ threads[h].pc = "test_empty"
    /\ threads' = [threads EXCEPT
            ![h].pc = IF threads[h].result_queue = <<>> THEN "test_alive" ELSE "get"]
    /\ UNCHANGED <<widget, tile_manager, handlers, drawn, lastOp, rev, cache, geo, requested>>

\* ... and sum([t.is_alive() for t in self.threads]) == 0
HandlerTestAlive(h) ==
    /\ threads[h].pc = "test_alive"
    /\ threads' = [threads EXCEPT
            ![h].pc = IF \E w \in DOMAIN threads[h].workers : is_alive(threads[h].workers[w])
                      THEN "get" ELSE "done"]
    /\ UNCHANGED <<widget, tile_manager, handlers, drawn, lastOp, rev, cache, geo, requested>>

\* result = self.result_queue.get(): blocks while the queue is empty
HandlerGet(h) ==
    /\ threads[h].pc = "get"
    /\ threads[h].result_queue # <<>>
    /\ threads' = [threads EXCEPT
            ![h].result = Head(threads[h].result_queue),
            ![h].result_queue = Tail(@),
            ![h].callbacks = Append(@, Head(threads[h].result_queue)),
            ![h].pc = "draw_tile"]
    /\ UNCHANGED <<widget, tile_manager, handlers, drawn, lastOp, rev, cache, geo, requested>>

\* self.callback(result) = draw_tile: if tile_spec in self.tiles: return
DrawTileCheck(h) ==
    /\ threads[h].pc = "draw_tile"
    /\ threads' = [threads EXCEPT
            ![h].pc = IF threads[h].result \in Range(tile_manager.tiles)
                      THEN "test_empty" ELSE "load_image"]
    /\ UNCHANGED <<widget, tile_manager, handlers, drawn, lastOp, rev, cache, geo, requested>>

\* dpg_image = dpg.load_image(...); if dpg_image is None: return
DrawTileLoad(h, image_ok) ==
    /\ threads[h].pc = "load_image"
    /\ threads' = [threads EXCEPT ![h].pc = IF image_ok THEN "append" ELSE "test_empty"]
    /\ UNCHANGED <<widget, tile_manager, handlers, drawn, lastOp, rev, cache, geo, requested>>

\* self.tiles.append(tile_spec); add_raw_texture; dpg.draw_image
DrawTileAppend(h) ==
    /\ threads[h].pc = "append"
    /\ tile_manager' = [tile_manager EXCEPT !.tiles = Append(@, threads[h].result)]
    /\ drawn' = Append(drawn, threads[h].result)
    /\ threads' = [threads EXCEPT ![h].pc = "test_empty"]
    /\ UNCHANGED <<widget, handlers, lastOp, rev, cache, geo, requested>>

\* DownloadThread.run: while not self.task_queue.empty()
WorkerTestEmpty(h, w) ==
    /\ threads[h].workers[w].pc = "loop"
    /\ threads' = [threads EXCEPT
            ![h].workers[w].pc = IF threads[h].task_queue = <<>> THEN "dead" ELSE "get"]
    /\ UNCHANGED <<widget, tile_manager, handlers, drawn, lastOp, rev, cache, geo, requested>>

\* tile_spec = self.task_queue.get(): a LifoQueue; blocks while it is empty
WorkerGet(h, w) ==
    /\ threads[h].workers[w].pc = "get"
    /\ threads[h].task_queue # <<>>
    /\ LET n == Len(threads[h].task_queue)
       IN  threads' = [threads EXCEPT
               ![h].workers[w].tile_spec = threads[h].task_queue[n],
               ![h].workers[w].pc = "download",
               ![h].task_queue = SubSeq(@, 1, n - 1)]
    /\ UNCHANGED <<widget, tile_manager, handlers, drawn, lastOp, rev, cache, geo, requested>>

\* WorkerDownload, but the tile spec is put on the result queue whatever the
\* outcome
WorkerDownloadAlwaysPut(h, w, outcome) ==
    /\ threads[h].workers[w].pc = "download"
    /\ LET tile_spec == threads[h].workers[w].tile_spec
       IN  /\ threads' = [threads EXCEPT
                   ![h].result_queue = Append(@, tile_spec),
                   ![h].failed = IF outcome = "ok" THEN @ ELSE @ \cup {tile_spec},
                   ![h].workers[w].pc = IF outcome = "error" THEN "dead" ELSE "loop"]
           /\ cache' = IF outcome = "ok" THEN cache \cup {tile_spec} ELSE cache
    /\ UNCHANGED <<widget, tile_manager, handlers, drawn, lastOp, rev, geo, requested>>

\* the download: the file is written and the tile spec put on the result
\* queue ("ok"), urlopen raises HTTPError, which is caught ("http_error"), or
\* another exception ends the thread ("error")
WorkerDownload(h, w, outcome) ==
    /\ threads[h].workers[w].pc = "download"
    /\ LET tile_spec == threads[h].workers[w].tile_spec
       IN  /\ threads' = [threads EXCEPT
                   ![h].result_queue = IF outcome = "ok" THEN Append(@, tile_spec) ELSE @,
                   ![h].failed = IF outcome = "ok" THEN @ ELSE @ \cup {tile_spec},
                   ![h].workers[w].pc = IF outcome = "error" THEN "dead" ELSE "loop"]
           /\ cache' = IF outcome = "ok" THEN cache \cup {tile_spec} ELSE cache
    /\ UNCHANGED <<widget, tile_manager, handlers, drawn, lastOp, rev, geo, requested>>

NextTiles ==
    \/ StartHandler
    \/ \E h \in DOMAIN threads : HandlerStartWorker(h)
    \/ \E h \in DOMAIN threads : HandlerTestEmpty(h)
    \/ \E h \in DOMAIN threads : HandlerTestAlive(h)
    \/ \E h \in DOMAIN threads : HandlerGet(h)
    \/ \E h \in DOMAIN threads : DrawTileCheck(h)
    \/ \E h \in DOMAIN threads, image_ok \in BOOLEAN : DrawTileLoad(h, image_ok)
    \/ \E h \in DOMAIN threads : DrawTileAppend(h)
    \/ \E h \in DOMAIN threads : \E w \in DOMAIN threads[h].workers :
          WorkerTestEmpty(h, w)
    \/ \E h \in DOMAIN threads : \E w \in DOMAIN threads[h].workers :
          WorkerGet(h, w)
    \/ \E h \in DOMAIN threads : \E w \in DOMAIN threads[h].workers :
          \E outcome \in {"ok", "http_error", "error"} : WorkerDownload(h, w, outcome)

SpecTiles == InitTiles /\ [][NextTiles]_vars

----------------------------------------------------------------------------
(* SpecBatch: one TileHandler with its batch, for tile servers with a       *)
(* thread_limit of 1 .. MaxWorkers.                                         *)

InitBatch ==
    \E tile_server \in TileServers, thread_limit \in 1 .. MaxWorkers,
       center \in Centers, zoom_level \in InitZooms :
        LET mw == NewMapWidget(Width, Height, center, zoom_level,
                               [tile_server EXCEPT !.thread_limit = thread_limit])
            dl == draw_layer(mw.tm, <<>>)
        IN  /\ widget = mw.w
            /\ tile_manager = dl.tm
            /\ handlers = Live(dl.hs)
            /\ drawn = <<>>
            /\ lastOp = "init"
            /\ rev = NoRev
            /\ threads = <<>>
            /\ cache \in SUBSET Range(FetchSpecs)
            /\ geo = NoCall
            /\ requested = {}

\* draw_layer starts the TileHandler
StartBatch ==
    /\ threads = <<>>
    /\ StartHandler

NextBatch ==
    \/ StartBatch
    \/ \E h \in DOMAIN threads : HandlerStartWorker(h)
    \/ \E h \in DOMAIN threads : HandlerTestEmpty(h)
    \/ \E h \in DOMAIN threads : HandlerTestAlive(h)
    \/ \E h \in DOMAIN threads : HandlerGet(h)
    \/ \E h \in DOMAIN threads : DrawTileCheck(h)
    \/ \E h \in DOMAIN threads, image_ok \in BOOLEAN : DrawTileLoad(h, image_ok)
    \/ \E h \in DOMAIN threads : DrawTileAppend(h)
    \/ \E h \in DOMAIN threads : \E w \in DOMAIN threads[h].workers :
          WorkerTestEmpty(h, w)
    \/ \E h \in DOMAIN threads : \E w \in DOMAIN threads[h].workers :
          WorkerGet(h, w)
    \/ \E h \in DOMAIN threads : \E w \in DOMAIN threads[h].workers :
          \E outcome \in {"ok", "http_error", "error"} : WorkerDownload(h, w, outcome)

SpecBatch == InitBatch /\ [][NextBatch]_vars

\* the steps of TileHandler thread h, its callback included
HandlerStep(h) ==
    /\ h \in DOMAIN threads
    /\ \/ HandlerStartWorker(h)
       \/ HandlerTestEmpty(h)
       \/ HandlerTestAlive(h)
       \/ HandlerGet(h)
       \/ DrawTileCheck(h)
       \/ \E image_ok \in BOOLEAN : DrawTileLoad(h, image_ok)
       \/ DrawTileAppend(h)

\* the steps of DownloadThread w of TileHandler h
WorkerStep(h, w) ==
    /\ h \in DOMAIN threads
    /\ w \in DOMAIN threads[h].workers
    /\ \/ WorkerTestEmpty(h, w)
       \/ WorkerGet(h, w)
       \/ \E outcome \in {"ok", "http_error", "error"} : WorkerDownload(h, w, outcome)

\* SpecBatchFair: SpecBatch where draw_layer does start the handler and every
\* thread that is able to take a step is scheduled in the end (threading.Thread
\* under the operating system's scheduler; a download ends, one way or another)
SpecBatchFair ==
    /\ InitBatch
    /\ [][NextBatch]_vars
    /\ WF_vars(StartBatch)
    /\ WF_vars(HandlerStep(1))
    /\ \A w \in 1 .. MaxWorkers : WF_vars(WorkerStep(1, w))

----------------------------------------------------------------------------
(* SpecCallback: SpecBatch with a callback that may raise.  draw_tile raises *)
(* when tile_spec.canvas_coordinates() or dpg.load_image raises; lastOp      *)
(* records that this has happened.                                           *)

\* the callback raises: control passes to the except clause of TileHandler.run
CallbackRaises(h) ==
    /\ threads[h].pc = "load_image"
    /\ threads' = [threads EXCEPT ![h].pc = "except"]
    /\ lastOp' = "callback_raised"
    /\ UNCHANGED <<widget, tile_manager, handlers, drawn, rev, cache, geo, requested>>

\* HandlerExcept, but run() has no except clause: the exception ends the thread
HandlerExceptEndsThread(h) ==
    /\ threads[h].pc = "except"
    /\ threads' = [threads EXCEPT ![h].pc = "done"]
    /\ UNCHANGED <<widget, tile_manager, handlers, drawn, lastOp, rev, cache, geo, requested>>

\* except Exception as exc: logger.error(exc); finally: task_done(); the while
\* loop goes on
HandlerExcept(h) ==
    /\ threads[h].pc = "except"
    /\ threads' = [threads EXCEPT ![h].pc = "test_empty"]
    /\ UNCHANGED <<widget, tile_manager, handlers, drawn, lastOp, rev, cache, geo, requested>>

NextCallback ==
    \/ NextBatch
    \/ \E h \in DOMAIN threads : CallbackRaises(h)
    \/ \E h \in DOMAIN threads : HandlerExcept(h)

SpecCallback == InitBatch /\ [][NextCallback]_vars

----------------------------------------------------------------------------
(* SpecView: a TileManager driven directly, as the tests of test_widget.py  *)
(* drive it: drag_layer by whole tiles of the tile server, finish_drag, and *)
(* draw_tile for a required tile.                                           *)

\* origins (upper left corners) the tile manager is created with
ViewOrigins ==
    {Coordinate(x, y) : x \in {0, Unit \div 4, Unit \div 2}, y \in {0, Unit \div 4}}

\* a tile address the tile server has a tile for
ValidAddress(t) ==
    /\ 0 <= t.tile_x /\ t.tile_x < Pow2(t.zoom_level)
    /\ 0 <= t.tile_y /\ t.tile_y < Pow2(t.zoom_level)

InitView ==
    \E tile_server \in TileServers, origin \in ViewOrigins, zoom_level \in 0 .. MaxZoomLevel :
        /\ tile_manager = NewTileManager(origin, Width, Height, zoom_level, tile_server)
        /\ widget = [width |-> Width, height |-> Height, origin |-> origin,
                     zoom_level |-> zoom_level, left_mouse_pressed |-> FALSE,
                     last_drag |-> <<0, 0>>]
        /\ handlers = <<>>
        /\ drawn = <<>>
        /\ lastOp = "init"
        /\ rev = NoRev
        /\ threads = <<>>
        /\ cache = {}
        /\ geo = NoCall
        /\ requested = {}

\* tile_manager.drag_layer(-k * tile width, -k * tile height)
ViewDragLayer(k) ==
    LET ts == tile_manager.tile_server.tile_size
    IN  /\ tile_manager' = drag_layer(tile_manager, -k * ts[1], -k * ts[2])
        /\ lastOp' = "drag_layer"
        /\ UNCHANGED <<widget, handlers, drawn, rev, fetchVars, geo, requested>>

\* tile_manager.finish_drag()
ViewFinishDrag ==
    /\ InBox(finish_drag(tile_manager).origin)
    /\ tile_manager' = finish_drag(tile_manager)
    /\ lastOp' = "finish_drag"
    /\ UNCHANGED <<widget, handlers, drawn, rev, fetchVars, geo, requested>>

\* tile_manager.draw_tile(tile_spec) for a required tile whose image loads
ViewDrawTile(tile_spec) ==
    LET r == draw_tile(tile_manager, drawn, tile_spec, TRUE)
    IN  /\ Len(tile_manager.tiles) < MaxShown
        /\ tile_spec \in required_tiles_for_view(tile_manager)
        /\ ValidAddress(tile_spec)
        /\ tile_manager' = r.tm
        /\ drawn' = r.dr
        /\ lastOp' = "draw_tile"
        /\ UNCHANGED <<widget, handlers, rev, fetchVars, geo, requested>>

NextView ==
    \/ \E k \in -MaxShift .. MaxShift : ViewDragLayer(k)
    \/ ViewFinishDrag
    \/ \E tile_spec \in required_tiles_for_view(tile_manager) : ViewDrawTile(tile_spec)

SpecView == InitView /\ [][NextView]_vars

----------------------------------------------------------------------------
(* SpecGeo: calls of Coordinate.from_latlon *)

\* latitudes passed to from_latlon: the bounds, the first value past each
\* bound, values well outside, and values inside
Latitudes ==
    LET past == Angle(MAX_LATITUDE[1], MAX_LATITUDE[2] + 1)
        pos == {MAX_LATITUDE, past, QuarterLatitude, Angle(8600000, 0),
                Angle(8800000, 0), Angle(9000000, 0)}
    IN  pos \cup {AngleNeg(lat) : lat \in pos} \cup {Angle(0, 0)}

\* longitudes passed to from_latlon
Longitudes ==
    LET pos == {MaxLongitude, Angle(MaxLongitude[1], 1), Angle(18100000, 0),
                Angle(20000000, 0), Angle(9000000, 0), Angle(2494020, 0)}
    IN  pos \cup {AngleNeg(lon) : lon \in pos} \cup {Angle(0, 0)}

\* Coordinate.from_latlon(latitude, longitude)
FromLatLon(latitude, longitude) ==
    /\ geo' = [op |-> "from_latlon", latitude |-> latitude, longitude |-> longitude,
               result |-> from_latlon(latitude, longitude)]
    /\ UNCHANGED <<widget, tile_manager, handlers, drawn, lastOp, rev, threads, cache, requested>>

NextGeo ==
    \E latitude \in Latitudes, longitude \in Longitudes : FromLatLon(latitude, longitude)

SpecGeo == Init /\ [][NextGeo]_vars

----------------------------------------------------------------------------
(* SpecRoundTrip: Coordinate.from_latlon(latitude, longitude).latlon() *)

RoundTrip(latitude, longitude) ==
    LET made == from_latlon(latitude, longitude)
    IN  /\ geo' = [op |-> "latlon", latitude |-> latitude, longitude |-> longitude,
                   result |-> made,
                   latlon |-> IF made.raised = None THEN latlon(made.coordinate)
                              ELSE <<>>]
        /\ UNCHANGED <<widget, tile_manager, handlers, drawn, lastOp, rev, threads, cache, requested>>

NextRoundTrip ==
    \E latitude \in Latitudes, longitude \in Longitudes : RoundTrip(latitude, longitude)

SpecRoundTrip == Init /\ [][NextRoundTrip]_vars

----------------------------------------------------------------------------
(* SpecCreate: add_map_widget with a centre given as latitude and longitude *)

\* add_map_widget(Width, Height, (latitude, longitude), zoom_level, tile_server):
\* MapWidget.__init__ calls Coordinate.from_latlon(*center) first; if that
\* raises, no widget is made and the exception reaches the caller.  Otherwise
\* the widget is constructed and insert_widget draws the tile layer.
AddMapWidget(latitude, longitude, zoom_level, tile_server) ==
    LET center == from_latlon(latitude, longitude)
        mw == NewMapWidget(Width, Height, center.coordinate, zoom_level, tile_server)
        dl == draw_layer(mw.tm, <<>>)
    IN  /\ geo' = [op |-> "add_map_widget", latitude |-> latitude,
                   longitude |-> longitude, result |-> center]
        /\ IF center.raised # None
           THEN UNCHANGED <<widget, tile_manager, handlers, drawn, lastOp>>
           ELSE /\ widget' = mw.w
                /\ tile_manager' = dl.tm
                /\ handlers' = Live(dl.hs)
                /\ drawn' = <<>>
                /\ lastOp' = "init"
        /\ UNCHANGED <<rev, fetchVars, requested>>

\* centres given to add_map_widget: inside the bounds, on them and past them
CenterLatitudes ==
    {MAX_LATITUDE, QuarterLatitude, Angle(0, 0), AngleNeg(QuarterLatitude),
     AngleNeg(MAX_LATITUDE), Angle(8800000, 0)}

CenterLongitudes ==
    {AngleNeg(MaxLongitude), Angle(0, 0), Angle(9000000, 0), MaxLongitude,
     Angle(20000000, 0)}

NextCreate ==
    \E latitude \in CenterLatitudes, longitude \in CenterLongitudes,
       zoom_level \in 0 .. MaxZoomLevel, tile_server \in TileServers :
        AddMapWidget(latitude, longitude, zoom_level, tile_server)

SpecCreate == Init /\ [][NextCreate]_vars

----------------------------------------------------------------------------
(* SpecUrl: reads of TileSpec.download_url; geo keeps the last read and the *)
(* read before it.                                                          *)

\* the tile specs whose download_url is read
UrlSpecs ==
    {to_tile_spec(x, y, z) : x \in 0 .. 1, y \in 0 .. 1, z \in 0 .. MaxZoomLevel}

\* TileSpec(tile_x, tile_y, zoom_level, base_url, subdomains).download_url
DownloadUrl(tile_spec, base_url, subdomains) ==
    /\ geo' = [op |-> "download_url", tile_spec |-> tile_spec, base_url |-> base_url,
               subdomains |-> subdomains,
               result |-> download_url(tile_spec, base_url, subdomains),
               previous |-> IF geo.op = "download_url"
                            THEN [geo EXCEPT !.previous = NoCall]
                            ELSE NoCall]
    /\ UNCHANGED <<widget, tile_manager, handlers, drawn, lastOp, rev, threads, cache, requested>>

NextUrl ==
    \E tile_spec \in UrlSpecs, base_url \in BaseUrls, subdomains \in SubdomainLists :
        DownloadUrl(tile_spec, base_url, subdomains)

SpecUrl == Init /\ [][NextUrl]_vars

----------------------------------------------------------------------------
(* Claims *)

Tiles == tile_manager.tiles

NoDuplicates(seq) == \A i, j \in DOMAIN seq : i # j => seq[i] # seq[j]

\* C1: under every interleaving of tile arrivals, the same tile spec arriving
\* from different batches included, the displayed tiles hold no tile spec
\* twice and no tile spec is drawn twice.
C1_NoDuplicateTiles ==
    /\ NoDuplicates(tile_manager.tiles)
    /\ NoDuplicates(drawn)

\* C2: a drag update sets the pending drag of MapWidget and TileManager to
\* exactly the (dx, dy) of the call, whatever drag was pending before, and
\* leaves origin, zoom level and displayed tiles unchanged.
C2_DragReplaces ==
    [][\A delta \in Drags :
          (widget.left_mouse_pressed /\ MouseDrag(delta)) =>
              /\ widget'.last_drag = delta
              /\ tile_manager'.last_drag = delta
              /\ widget'.origin = widget.origin
              /\ tile_manager'.origin = tile_manager.origin
              /\ widget'.zoom_level = widget.zoom_level
              /\ tile_manager'.zoom_level = tile_manager.zoom_level
              /\ tile_manager'.tiles = tile_manager.tiles]_vars

\* a drag update has replaced a non-zero pending drag by another one
C2_Witness ==
    /\ lastOp = "redrag"
    /\ widget.last_drag # <<0, 0>>
    /\ Len(Tiles) > 0

\* origin, zoom level, origin offset, pending drag and displayed tiles
ViewState(w, tm) ==
    <<w.origin, w.zoom_level, w.last_drag,
      tm.origin, tm.zoom_level, tm.last_drag, tm.origin_offset, tm.tiles>>

\* C3: a drag commit with a non-zero pending drag (dx, dy) moves the origin by
\* (-dx, -dy) screen pixels at the current zoom level and the tile server's
\* tile size and resets the pending drag; with no pending drag it changes
\* nothing.
C3_CommitMovesOrigin ==
    [][MouseRelease =>
          IF widget.last_drag = <<0, 0>>
          THEN ViewState(widget', tile_manager') = ViewState(widget, tile_manager)
          ELSE LET shifted == with_screen_offset(widget.origin, -widget.last_drag[1],
                                   -widget.last_drag[2], widget.zoom_level,
                                   tile_manager.tile_server.tile_size)
               IN  /\ widget'.origin = shifted
                   /\ tile_manager'.origin = shifted
                   /\ widget'.last_drag = <<0, 0>>
                   /\ tile_manager'.last_drag = <<0, 0>>]_vars

C6_ZoomAnchored ==
    [][\A delta_zoom \in {-1, 1}, canvas_pos \in CanvasPoints :
          (~ZoomIgnored(widget.zoom_level + delta_zoom)
              /\ MouseWheel(delta_zoom, canvas_pos)) =>
              /\ widget'.zoom_level = widget.zoom_level + delta_zoom
              /\ get_coordinate(widget', tile_manager', canvas_pos[1], canvas_pos[2])
                   = get_coordinate(widget, tile_manager, canvas_pos[1], canvas_pos[2])
              /\ canvas_pos = <<0, 0>> => widget'.origin = widget.origin]_vars

\* a zoom at a canvas point other than (0, 0) has taken place
C6_Witness ==
    /\ lastOp = "zoom"
    /\ widget.zoom_level # MaxZoomLevel

\* the point lies where its fractional tile coordinate is x * 2^zoom, y * 2^zoom
InPlane(c, zoom) ==
    /\ 0 <= c.x /\ c.x * Pow2(zoom) <= (Pow2(zoom) - 1) * Unit
    /\ 0 <= c.y /\ c.y * Pow2(zoom) <= (Pow2(zoom) - 1) * Unit

\* C7: whenever no drag is pending, origin_offset is minus the origin's
\* fractional tile coordinate at the current zoom level times the tile size.
\* Stated for origins inside the projected plane.
C7_OffsetFollowsOrigin ==
    (tile_manager.last_drag = <<0, 0>>
        /\ InPlane(tile_manager.origin, tile_manager.zoom_level)) =>
        LET origin_xy == tile_xy_float(tile_manager.origin, tile_manager.zoom_level)
            ts == tile_manager.tile_server.tile_size
        IN  tile_manager.origin_offset = <<-origin_xy[1] * ts[1], -origin_xy[2] * ts[2]>>

ConvertedPoints(tm) ==
    LET res == <<DefaultResolution, DefaultResolution>>
        min_point == with_screen_offset(tm.origin, -tm.last_drag[1], -tm.last_drag[2],
                                        tm.zoom_level, res)
        max_point == with_screen_offset(min_point, tm.viewport_size[1],
                                        tm.viewport_size[2], tm.zoom_level, res)
    IN  {tm.origin, min_point, max_point}

\* C9: for the points the tile manager converts and every zoom level, the
\* truncated and the fractional tile coordinates lie in 0 .. 2^zoom - 1.
C9_TileCoordinatesClamped ==
    \A c \in ConvertedPoints(tile_manager), zoom \in 0 .. MaxZoomLevel :
        LET t == tile_xy(c, zoom)
            f == tile_xy_float(c, zoom)
            top == Pow2(zoom) - 1
        IN  /\ 0 <= t[1] /\ t[1] <= top
            /\ 0 <= t[2] /\ t[2] <= top
            /\ 0 <= f[1] /\ f[1] <= top * Unit
            /\ 0 <= f[2] /\ f[2] <= top * Unit

\* C10: the visible tile range, with and without margin, is not empty and
\* holds only tile addresses in 0 .. 2^zoom - 1.
C10_VisibleTilesValid ==
    \A margin \in {0, Margin} :
        LET visible == get_visible_tiles(tile_manager, margin)
            top == Pow2(tile_manager.zoom_level) - 1
        IN  /\ visible # {}
            /\ \A t \in visible :
                  /\ 0 <= t[1] /\ t[1] <= top
                  /\ 0 <= t[2] /\ t[2] <= top

\* C4: after a drag, its commit, the opposite drag and its commit, with no
\* change of zoom level in between, origin and origin offset are what they
\* were before the first drag.
C4_DragRevert ==
    rev.phase = 4 =>
        /\ widget.origin = rev.origin
        /\ tile_manager.origin = rev.origin
        /\ tile_manager.origin_offset = rev.offset

\* the four steps were taken, under a tile server whose tiles are not 256
\* pixels wide
C4_Witness ==
    /\ rev.phase = 4
    /\ rev.d # <<0, 0>>
    /\ tile_manager.tile_server.tile_size # <<DefaultResolution, DefaultResolution>>

\* the tile specs of the margin-expanded visible rectangle
VisibleSpecs(tm) ==
    {to_tile_spec(t[1], t[2], t[3]) : t \in get_visible_tiles(tm, Margin)}

\* the tile specs moved by k tiles on each axis
Shifted(specs, k) ==
    {to_tile_spec(t.tile_x + k, t.tile_y + k, t.zoom_level) : t \in specs}

\* C11: the tiles to fetch are the tile specs of the margin-expanded visible
\* rectangle that are not displayed; with nothing displayed, a pending drag
\* of (-k * tile width, -k * tile height) moves them by +k tiles on each axis.
C11_RequiredTiles ==
    LET tm == tile_manager
        ts == tm.tile_server.tile_size
        required == required_tiles_for_view(tm)
        k == (-tm.last_drag[1]) \div ts[1]
    IN  /\ required \cap Range(tm.tiles) = {}
        /\ required \cup (VisibleSpecs(tm) \cap Range(tm.tiles)) = VisibleSpecs(tm)
        /\ (tm.tiles = <<>> /\ tm.last_drag = <<-k * ts[1], -k * ts[2]>>) =>
              required = Shifted(required_tiles_for_view(drag_layer(tm, 0, 0)), k)

\* C12: when an arriving tile is drawn, the rectangle given to the drawing
\* step has pmin = tile address * tile size + the origin offset of that
\* moment, and pmax = pmin + tile size.
C12_RectangleFromCurrentOffset ==
    [][\A h \in DOMAIN handlers, tile_spec \in Served :
          (lastOp' = "tile" /\ drawn' # drawn /\ TileArrives(h, tile_spec, TRUE)) =>
              LET ts == tile_manager.tile_server.tile_size
                  rect == draw_rectangle(tile_manager, tile_spec)
                  pmin == <<tile_spec.tile_x * ts[1] * Unit + tile_manager.origin_offset[1],
                            tile_spec.tile_y * ts[2] * Unit + tile_manager.origin_offset[2]>>
              IN  /\ rect.pmin = pmin
                  /\ rect.pmax = <<pmin[1] + ts[1] * Unit, pmin[2] + ts[2] * Unit>>]_vars

\* C13: a TileHandler passes no tile spec to the callback twice, and when its
\* thread has ended every tile spec that was cached or downloaded has been
\* passed to the callback.
C13_ResolvedDeliveredOnce ==
    \A h \in DOMAIN threads :
        /\ NoDuplicates(threads[h].callbacks)
        /\ threads[h].pc = "done" => threads[h].result_queue = <<>>

C15_FailureDoesNotStopWorker ==
    \A h \in DOMAIN threads :
        (/\ Len(threads[h].workers) = threads[h].thread_count
         /\ \A w \in DOMAIN threads[h].workers : ~is_alive(threads[h].workers[w]))
            => threads[h].task_queue = <<>>

\* the TileHandler threads that are inside the callback draw_tile
InDrawTile == {h \in DOMAIN threads : threads[h].pc \in {"draw_tile", "load_image", "append"}}

\* C16: draw_tile is never executed on a thread of the fetch layer, so that
\* no two executions of draw_tile overlap.
C16_DrawTileOnControlThread ==
    /\ InDrawTile = {}
    /\ Cardinality(InDrawTile) <= 1

\* the tile specs a TileHandler has been given and has neither passed to the
\* callback nor failed to download
InFlight(h) ==
    Range(threads[h].task_queue) \cup Range(threads[h].result_queue)
        \cup {threads[h].workers[w].tile_spec :
                w \in {v \in DOMAIN threads[h].workers : threads[h].workers[v].pc = "download"}}

\* C17: no tile spec is in flight in two TileHandlers at once.
C17_NoFetchTwiceInFlight ==
    \A h1, h2 \in DOMAIN threads : h1 # h2 => InFlight(h1) \cap InFlight(h2) = {}

\* the download workers that are running
RunningWorkers ==
    {hw \in {<<h, w>> : h \in DOMAIN threads, w \in 1 .. MaxWorkers} :
        /\ hw[2] \in DOMAIN threads[hw[1]].workers
        /\ is_alive(threads[hw[1]].workers[hw[2]])}

\* C18: the download workers running at the same time are at most
\* thread_limit of the tile server.
C18_WorkersWithinThreadLimit ==
    Cardinality(RunningWorkers) <= tile_manager.tile_server.thread_limit

\* the tile specs a TileHandler was made for
Requested(handler) == Range(handler.task_queue) \cup Range(handler.result_queue)

\* C19: a draw_layer never requests a tile spec whose download has failed
\* before.
C19_NoRetry ==
    [][StartHandler =>
          \A h \in DOMAIN threads :
              threads[h].failed \cap Requested(threads'[Len(threads')]) = {}]_vars

\* the angle lies outside -bound .. bound
OutOfBounds(angle, bound) == AngleLess(bound, angle) \/ AngleLess(angle, AngleNeg(bound))

\* C20: from_latlon raises ValueError and makes no Coordinate when
\* |lat| > 85.0511287798 or |lon| > 180, and makes a Coordinate of the
\* projected plane for every other latitude and longitude, bounds included.
C20_FromLatLonBounds ==
    geo.op = "from_latlon" =>
        IF OutOfBounds(geo.latitude, MAX_LATITUDE) \/ OutOfBounds(geo.longitude, MaxLongitude)
        THEN geo.result.raised = ValueError /\ geo.result.coordinate = None
        ELSE /\ geo.result.raised = None
             /\ geo.result.coordinate.x \in 0 .. Unit
             /\ geo.result.coordinate.y \in 0 .. Unit

\* from_latlon was called with the first latitude below the lower bound and a
\* longitude on the bound
C20_Witness ==
    /\ geo.op = "from_latlon"
    /\ geo.latitude = AngleNeg(Angle(MAX_LATITUDE[1], MAX_LATITUDE[2] + 1))
    /\ geo.longitude = MaxLongitude
    /\ geo.result.raised = ValueError

Field(call, field) ==
    {call.result.url[i] : i \in {j \in DOMAIN call.base_url : call.base_url[j] = field}}

\* C22: the download URL of a TileSpec has x, y and z substituted and the
\* first subdomain of the list, never another one, in the place of the
\* subdomain field; every other piece is that of the template, and two reads
\* for equal TileSpecs give the same URL.
C22_DownloadUrl ==
    (geo.op = "download_url" /\ geo.result.raised = None) =>
        /\ Len(geo.result.url) = Len(geo.base_url)
        /\ Field(geo, "{subdomain}") = {Head(geo.subdomains)}
        /\ Field(geo, "{x}") = {ToString(geo.tile_spec.tile_x)}
        /\ Field(geo, "{y}") = {ToString(geo.tile_spec.tile_y)}
        /\ Field(geo, "{z}") = {ToString(geo.tile_spec.zoom_level)}
        /\ \A i \in DOMAIN geo.base_url :
              geo.base_url[i] \notin {"{subdomain}", "{x}", "{y}", "{z}"}
                  => geo.result.url[i] = geo.base_url[i]
        /\ (/\ geo.previous.op = "download_url"
            /\ geo.previous.tile_spec = geo.tile_spec
            /\ geo.previous.base_url = geo.base_url
            /\ geo.previous.subdomains = geo.subdomains)
               => geo.previous.result = geo.result

\* the URL of tile (1, 0) was read twice for a server with three subdomains
C22_Witness ==
    /\ geo.op = "download_url"
    /\ geo.subdomains = <<"a", "b", "c">>
    /\ geo.tile_spec.tile_x = 1
    /\ geo.tile_spec.tile_y = 0
    /\ geo.previous.op = "download_url"
    /\ geo.previous.tile_spec = geo.tile_spec
    /\ geo.previous.base_url = geo.base_url
    /\ geo.previous.subdomains = geo.subdomains
    /\ geo.result.raised = None

\* two angles are less than one step of the coordinate grid apart: the grid
\* has Unit steps over 360 degrees, and an angle counts 10^-5 degree
AngleClose(p, q) ==
    LET step == (36000000 \div Unit) + 1
        d == p[1] - q[1]
    IN  -step <= d /\ d <= step

HandlerDone(h) == h \in DOMAIN threads /\ threads[h].pc = "done"

WorkerStarted(h, w) == h \in DOMAIN threads /\ w \in DOMAIN threads[h].workers

WorkerDead(h, w) == WorkerStarted(h, w) /\ ~is_alive(threads[h].workers[w])

\* every tile spec of the batch of handler h has been passed to the callback or
\* has failed: none waits in a queue and none is being downloaded
BatchSettled(h) ==
    /\ h \in DOMAIN threads
    /\ threads[h].pc # "start"
    /\ threads[h].task_queue = <<>>
    /\ threads[h].result_queue = <<>>
    /\ \A w \in DOMAIN threads[h].workers : threads[h].workers[w].pc # "download"

\* C24: once every tile of its batch has been delivered or has failed, a
\* started TileHandler thread terminates in the end, whatever the interleaving
\* and whether the downloads of its batch succeed or fail.
C24_HandlerTerminates ==
    [](BatchSettled(1) => <>HandlerDone(1))

\* C25: every DownloadThread worker of a TileHandler terminates in the end,
\* however many workers share the task queue.
C25_WorkersTerminate ==
    \A w \in 1 .. MaxWorkers :
        [](WorkerStarted(1, w) => <>WorkerDead(1, w))

\* the tile specs of the tile server whose rectangle, drawn at tile address
\* times tile size and moved by origin_offset + last_drag as _move_dragged_map
\* moves the tile layer, intersects the viewport
OnScreen(tm) ==
    LET ts == tm.tile_server.tile_size
        n == Pow2(tm.zoom_level)
        lo(i, k) == k * ts[i] * Unit + tm.origin_offset[i] + tm.last_drag[i] * Unit
    IN  {to_tile_spec(x, y, tm.zoom_level) : x \in 0 .. n - 1, y \in 0 .. n - 1} \cap
        {t \in [tile_x : 0 .. n - 1, tile_y : 0 .. n - 1, zoom_level : {tm.zoom_level}] :
            /\ lo(1, t.tile_x) < tm.viewport_size[1] * Unit
            /\ lo(1, t.tile_x + 1) > 0
            /\ lo(2, t.tile_y) < tm.viewport_size[2] * Unit
            /\ lo(2, t.tile_y + 1) > 0}

\* C26: after a drag update or a change of zoom level, each followed by
\* draw_layer, every tile that intersects the viewport at the current zoom
\* level is displayed or has been handed to a TileHandler.
C26_VisibleTilesRequested ==
    lastOp \in {"drag", "redrag", "zoom", "zoom_at_corner"} =>
        OnScreen(tile_manager) \subseteq (Range(tile_manager.tiles) \cup requested)

\* C27: when the image of an arrived tile cannot be loaded, nothing is drawn
\* and the displayed tiles stay as they are; the displayed tiles change only
\* by one tile spec appended together with the drawing of its image.
C27_FailedLoadDrawsNothing ==
    [][/\ lastOp' = "tile" =>
             \A h \in DOMAIN handlers, tile_spec \in Served :
                 TileArrives(h, tile_spec, FALSE) =>
                     /\ tile_manager'.tiles = tile_manager.tiles
                     /\ drawn' = drawn
       /\ tile_manager'.tiles # tile_manager.tiles =>
             \E h \in DOMAIN handlers, tile_spec \in Served :
                 /\ TileArrives(h, tile_spec, TRUE)
                 /\ tile_manager'.tiles = Append(tile_manager.tiles, tile_spec)
                 /\ drawn' = Append(drawn, tile_spec)]_vars

\* a tile has arrived whose image could not be loaded: nothing is displayed
C27_Witness ==
    /\ lastOp = "tile"
    /\ tile_manager.tiles = <<>>
    /\ drawn = <<>>

\* no DownloadThread of the handler has taken a task and none is left: the
\* whole batch came from the cache
FromCache(handler) ==
    /\ handler.task_queue = <<>>
    /\ handler.failed = {}
    /\ \A w \in DOMAIN handler.workers : handler.workers[w].tile_spec = NoTileSpec

\* C28: an exception raised by the callback is caught by the TileHandler and
\* does not stop delivery: the step that handles it leaves the result queue
\* as it is and returns to the loop, the thread ends only by its loop
\* condition, and a handler whose batch came from the cache ends with every
\* tile spec of the batch passed to the callback.
C28_CallbackExceptionCaught ==
    [][\A h \in DOMAIN threads :
          /\ (threads[h].pc = "except" /\ threads'[h].pc # "except") =>
                /\ threads'[h].pc = "test_empty"
                /\ threads'[h].result_queue = threads[h].result_queue
                /\ threads'[h].callbacks = threads[h].callbacks
          /\ (threads[h].pc # "done" /\ threads'[h].pc = "done") =>
                threads[h].pc = "test_alive"
          /\ (threads'[h].pc = "done" /\ FromCache(threads'[h])) =>
                threads'[h].result_queue = <<>>]_vars

\* the callback raised for the first tile spec of a batch of two, and the
\* second one has been passed to the callback
C28_Witness ==
    /\ lastOp = "callback_raised"
    /\ threads # <<>>
    /\ Len(threads[1].callbacks) = 2
    /\ threads[1].pc = "draw_tile"

\* C29: mouse drag events change the pending drag only while the left button
\* is held after a left click on the widget. The widget starts with the button
\* not held, only a click on the widget makes it held and every mouse release
\* ends it; a drag event while it is not held leaves pending drag, origin,
\* zoom level, origin offset and displayed tiles unchanged, starts no tile
\* handler and draws nothing; every mouse release leaves no pending drag in
\* MapWidget and TileManager.
C29_DragNeedsClick ==
    /\ ~widget.left_mouse_pressed
    /\ [][/\ (~widget.left_mouse_pressed /\ widget'.left_mouse_pressed) =>
                MouseClick(TRUE)
          /\ MouseRelease =>
                /\ ~widget'.left_mouse_pressed
                /\ widget'.last_drag = <<0, 0>>
                /\ tile_manager'.last_drag = <<0, 0>>
          /\ \A delta \in Drags :
                (~widget.left_mouse_pressed /\ MouseDrag(delta)) =>
                    /\ ViewState(widget', tile_manager') = ViewState(widget, tile_manager)
                    /\ handlers' = handlers
                    /\ drawn' = drawn
                    /\ requested' = requested]_vars

\* a drag event was ignored while the button was not held, tiles were
\* displayed and the origin was no longer the one of construction
C29_Witness ==
    /\ lastOp = "drag_ignored"
    /\ ~widget.left_mouse_pressed
    /\ Len(tile_manager.tiles) > 0
    /\ \A tile_server \in TileServers, center \in Centers, zoom_level \in InitZooms :
          widget.origin # NewMapWidget(Width, Height, center, zoom_level, tile_server).w.origin

====
